---- MODULE Spec2Model ----
(***************************************************************************)
(* Verification model of M-TEAM-AutoLogging: the page checks of auth.js,   *)
(* the Telegram verification channel of telegram.js, the session store and *)
(* the login flow of auth.js / main.js.                                    *)
(*                                                                         *)
(* Four specifications share the variables below:                          *)
(*   SpecPage     the page checks applied to every observable page         *)
(*   SpecChannel  initUpdates / waitForVerificationCode over a transport   *)
(*   SpecStore    getSessionState / createBrowser over file and env text   *)
(*   SpecLogin    main() -> login() -> handle2FA over a remote site        *)
(***************************************************************************)
EXTENDS Integers, Sequences, FiniteSets, TLC

VARIABLES
    \* ---- page checks (SpecPage)
    page,          \* the page as the browser shows it now
    pageBefore,    \* the page before the last check was called
    op,            \* the last check called
    ret,           \* what the last check returned: "true" | "false" | "throw"
    \* ---- Telegram channel (SpecChannel)
    lastUpdateId,  \* telegram.js module variable: last processed update_id
    queue,         \* the transport's pending updates, oldest first
    nextId,        \* the update_id the transport gives to the next update
    tpc,           \* "idle" | "polling": position inside waitForVerificationCode
    elapsed,       \* time spent in the current wait, in poll intervals
    sent,          \* messages delivered to the recipient, counted by kind
    codeRet,       \* result of the last waitForVerificationCode
    retUpdate,     \* the update the returned code was taken from
    consumedLog,   \* update_ids processed by the poll loop, in order
    staleIds,      \* update_ids pending when initUpdates was last called
    inited,        \* initUpdates has been called
    \* ---- session store (SpecStore, SpecLogin)
    pc,            \* position of the flow
    fileExists,    \* fs.existsSync(config.STORAGE_PATH)
    fileTxt,       \* content of the session file, a token sequence
    envTxt,        \* config.MT_SESSION, a token sequence (<<>> when unset)
    savedDoc,      \* what getSessionState returned, and from which backend
    applied,       \* createBrowser put savedDoc into contextOptions.storageState
    ctx,           \* browser.newContext: "none" | "ok" | "throw"
    \* ---- login flow (SpecLogin)
    run,           \* number of the acquisition (one process each)
    browserSt,     \* the browser process: "none" | "open" | "closed"
    loc,           \* locals of login(): browser and page assigned, isLoggedIn, attempt
    mn,            \* main(): browser assigned, loginResult, process.exitCode
    err,           \* the error login() caught, "none" if none
    hist           \* what the run has done so far, counted

pageVars == <<page, pageBefore, op, ret>>

chanVars == <<lastUpdateId, queue, nextId, tpc, elapsed, sent, codeRet,
              retUpdate, consumedLog, staleIds, inited>>

storeVars == <<pc, fileExists, fileTxt, envTxt, savedDoc, applied, ctx>>

loginVars == <<run, browserSt, loc, mn, err, hist>>

vars == <<page, pageBefore, op, ret,
          lastUpdateId, queue, nextId, tpc, elapsed, sent, codeRet,
          retUpdate, consumedLog, staleIds, inited,
          pc, fileExists, fileTxt, envTxt, savedDoc, applied, ctx,
          run, browserSt, loc, mn, err, hist>>

(***************************************************************************)
(* Values of the variables a specification does not use.                   *)
(***************************************************************************)
NoPage == [ urlLogin |-> FALSE, errorElems |-> FALSE, dialog |-> FALSE,
            titleMarker |-> FALSE, userElem |-> FALSE, codeInput |-> "none",
            tfaText |-> FALSE, recruit |-> FALSE, anyInput |-> FALSE,
            textInput |-> FALSE, deviceText |-> FALSE, pwdInput |-> FALSE ]

NoUpdate == [ update_id |-> 0, hasMessage |-> FALSE, hasFrom |-> FALSE,
              from |-> 0, text |-> <<>> ]

NoResult == [ kind |-> "none", code |-> <<>> ]

NoneSent == [ prompt |-> 0, ack |-> 0, timeout |-> 0 ]

IdlePage ==
    /\ page = NoPage
    /\ pageBefore = NoPage
    /\ op = "none"
    /\ ret = "none"

IdleChan ==
    /\ lastUpdateId = 0
    /\ queue = <<>>
    /\ nextId = 1
    /\ tpc = "idle"
    /\ elapsed = 0
    /\ sent = NoneSent
    /\ codeRet = NoResult
    /\ retUpdate = NoUpdate
    /\ consumedLog = <<>>
    /\ staleIds = {}
    /\ inited = FALSE

Undefined == [kind |-> "undefined", items |-> <<>>]

NoDoc == [src |-> "none", val |-> [kind |-> "null", items |-> <<>>]]

IdleStore ==
    /\ pc = "idle"
    /\ fileExists = FALSE
    /\ fileTxt = <<>>
    /\ envTxt = <<>>
    /\ savedDoc = NoDoc
    /\ applied = FALSE
    /\ ctx = "none"

NoLocals == [browser |-> FALSE, page |-> FALSE, isLoggedIn |-> FALSE,
             attempt |-> 0]

\* settings: the required settings the environment supplies (read by
\* validateConfig)
NoMain == [browser |-> FALSE, loginResult |-> "none", exitCode |-> 0,
           settings |-> {}]

\* a snapshot by what it holds: cookies, storage values at or below the
\* per-item ceiling, storage values above it
NoSnap == [cookies |-> 0, small |-> 0, large |-> 0]

NoHist == [ polls       |-> 0,      \* getUpdates requests made by login()
            credSubmits |-> 0,      \* performLogin submissions
            devNotice   |-> 0,      \* device approval notices sent
            prompt      |-> 0,      \* 2FA prompts sent
            codeSubmits |-> 0,      \* codes typed and submitted
            reject      |-> 0,      \* rejection messages sent
            shots       |-> 0,      \* error screenshots taken by login()
            notice      |-> 0,      \* error notices sent
            report      |-> 0,      \* success reports sent
            persist     |-> 0,      \* session secrets written
            warn        |-> 0,      \* persist warnings sent
            closes      |-> 0,      \* browser.close() calls
            enteredDA   |-> FALSE,  \* handleDeviceApproval was entered
            entered2FA  |-> FALSE,  \* handle2FA was entered
            restoredOk  |-> FALSE,  \* the restored session validated
            authOk      |-> FALSE,  \* checkLoginStatus answered true in login()
            timedOut    |-> FALSE,  \* waitForVerificationCode returned null
            stillDA     |-> FALSE,  \* approval still required after the reload
            persistFail |-> FALSE,  \* writing the session secret failed
            noticeFail  |-> FALSE,  \* an error notice could not be sent
            noSubmit    |-> FALSE,  \* performLogin found no way to submit
            noBox       |-> FALSE,  \* handle2FA left through "no longer 2FA"
            shown       |-> FALSE,  \* the last prompt embeds a remaining count
            left        |-> 0,      \* ... and this is the count
            snap        |-> NoSnap, \* context.storageState() in main()
            saved       |-> NoSnap, \* what was handed to updateSessionSecret
            prevRestoredOk |-> FALSE ] \* ... in the previous acquisition

IdleLogin ==
    /\ run = 0
    /\ browserSt = "none"
    /\ loc = NoLocals
    /\ mn = NoMain
    /\ err = "none"
    /\ hist = NoHist

(***************************************************************************)
(* Pages.  A page is what the checks can observe of it.                    *)
(***************************************************************************)
\* codeInput: an element matching one of the 2FA input selectors is
\* absent, present but not visible, or visible.
CodeInputStates == {"none", "hidden", "visible"}

Pages ==
    { p \in [ urlLogin    : BOOLEAN,      \* url.includes('login')
              errorElems  : BOOLEAN,      \* .error, .alert-danger, .message-error present
              dialog      : BOOLEAN,      \* a visible announcement confirm button
              titleMarker : BOOLEAN,      \* title includes M-Team / home marker
              userElem    : BOOLEAN,      \* a userIndicators selector matches
              codeInput   : CodeInputStates,
              tfaText     : BOOLEAN,      \* content includes one of tfaTexts
              recruit     : BOOLEAN,      \* content includes a recruitment phrase
              anyInput    : BOOLEAN,      \* page.$('input') finds an element
              textInput   : BOOLEAN,      \* a text input other than username/password
              deviceText  : BOOLEAN,      \* content includes a device-approval phrase
              pwdInput    : BOOLEAN ] :   \* a passwordSelectors selector matches
        \* a code input, a text input and a password input are input elements
        /\ p.codeInput # "none" => p.anyInput
        /\ p.textInput => p.anyInput
        /\ p.pwdInput => p.anyInput }

\* handleAnnouncements: clicks the first visible confirm button, which
\* closes the dialog; reports whether it clicked.  Errors are swallowed.
handleAnnouncements(p) ==
    IF p.dialog
    THEN [clicked |-> TRUE,  page |-> [p EXCEPT !.dialog = FALSE]]
    ELSE [clicked |-> FALSE, page |-> p]

\* checkLoginStatus: on a login URL it throws when error elements exist and
\* answers false otherwise; on any other URL it dismisses announcements,
\* answers true on a title or user-element match, and finally returns
\* !url.includes('login'), which is true on this branch.
checkLoginStatus(p) ==
    IF p.urlLogin
    THEN IF p.errorElems
         THEN [ret |-> "throw", page |-> p]
         ELSE [ret |-> "false", page |-> p]
    ELSE LET q == handleAnnouncements(p).page IN
         IF q.titleMarker
         THEN [ret |-> "true", page |-> q]
         ELSE IF q.userElem
              THEN [ret |-> "true", page |-> q]
              ELSE [ret |-> IF ~q.urlLogin THEN "true" ELSE "false", page |-> q]

\* check2FA without the leading login-status check (the older auth.js).
check2FA_noAuthFirst(p) ==
    IF p.codeInput = "visible"
    THEN [ret |-> "true", page |-> p]
    ELSE IF ~p.recruit /\ p.tfaText /\ p.anyInput
         THEN [ret |-> "true", page |-> p]
         ELSE [ret |-> "false", page |-> p]

\* check2FA whose text match ignores the recruitment phrases
check2FA_noExclusion(p) ==
    LET st == checkLoginStatus(p)
        q  == st.page
    IN  IF st.ret = "true"
        THEN [ret |-> "false", page |-> q]
        ELSE IF q.codeInput = "visible"
             THEN [ret |-> "true", page |-> q]
             ELSE IF q.tfaText /\ q.anyInput
                  THEN [ret |-> "true", page |-> q]
                  ELSE [ret |-> "false", page |-> q]

\* check2FA: first the login-status check (an exception from it is
\* swallowed), then the visible code-input selectors, then the text
\* phrases unless a recruitment phrase is present.
check2FA(p) ==
    LET st == checkLoginStatus(p)
        q  == st.page
    IN  IF st.ret = "true"
        THEN [ret |-> "false", page |-> q]
        ELSE IF q.codeInput = "visible"
             THEN [ret |-> "true", page |-> q]
             ELSE IF ~q.recruit /\ q.tfaText /\ q.anyInput
                  THEN [ret |-> "true", page |-> q]
                  ELSE [ret |-> "false", page |-> q]

\* checkDeviceApproval: a device-approval phrase anywhere in the content.
checkDeviceApproval(p) ==
    [ret |-> IF p.deviceText THEN "true" ELSE "false", page |-> p]

(***************************************************************************)
(* SpecPage: every check applied to every page.                            *)
(***************************************************************************)
InitPage ==
    /\ page \in Pages
    /\ pageBefore = page
    /\ op = "none"
    /\ ret = "none"
    /\ IdleChan
    /\ IdleStore
    /\ IdleLogin

Call_checkLoginStatus ==
    /\ pageBefore' = page
    /\ op' = "checkLoginStatus"
    /\ ret' = checkLoginStatus(page).ret
    /\ page' = checkLoginStatus(page).page
    /\ UNCHANGED chanVars
    /\ UNCHANGED storeVars
    /\ UNCHANGED loginVars

Call_check2FA ==
    /\ pageBefore' = page
    /\ op' = "check2FA"
    /\ ret' = check2FA(page).ret
    /\ page' = check2FA(page).page
    /\ UNCHANGED chanVars
    /\ UNCHANGED storeVars
    /\ UNCHANGED loginVars

Call_checkDeviceApproval ==
    /\ pageBefore' = page
    /\ op' = "checkDeviceApproval"
    /\ ret' = checkDeviceApproval(page).ret
    /\ page' = checkDeviceApproval(page).page
    /\ UNCHANGED chanVars
    /\ UNCHANGED storeVars
    /\ UNCHANGED loginVars

Call_handleAnnouncements ==
    /\ pageBefore' = page
    /\ op' = "handleAnnouncements"
    /\ ret' = IF handleAnnouncements(page).clicked THEN "true" ELSE "false"
    /\ page' = handleAnnouncements(page).page
    /\ UNCHANGED chanVars
    /\ UNCHANGED storeVars
    /\ UNCHANGED loginVars

NextPage ==
    \/ Call_checkLoginStatus
    \/ Call_check2FA
    \/ Call_checkDeviceApproval
    \/ Call_handleAnnouncements

SpecPage == InitPage /\ [][NextPage]_vars

(***************************************************************************)
(* Claims on the page checks.                                              *)
(***************************************************************************)
HasUserIndicator(p) == p.titleMarker \/ p.userElem
HasCodeIndicator(p) == p.codeInput = "visible" \/ p.tfaText

\* C1: checkLoginStatus answers "authenticated" only on a page whose URL is
\* not a login URL and which shows at least one authenticated-identity
\* indicator (title marker or user element).
C1_AuthenticatedOnlyWithIndicator ==
    (op = "checkLoginStatus" /\ ret = "true")
        => (~pageBefore.urlLogin /\ HasUserIndicator(pageBefore))

\* C2: on every page that shows both the authenticated-home indicators
\* (non-login URL plus a user indicator) and a code-verification indicator,
\* check2FA answers that no 2FA is needed.
C2_AuthenticatedWinsOver2FA ==
    (op = "check2FA" /\ ~pageBefore.urlLogin /\ HasUserIndicator(pageBefore)
        /\ HasCodeIndicator(pageBefore))
        => ret = "false"

C2_Witness ==
    /\ op = "check2FA"
    /\ ~pageBefore.urlLogin /\ pageBefore.userElem
    /\ pageBefore.codeInput = "visible" /\ pageBefore.tfaText
    /\ ret = "false"

\* C16 as stated: on every page with a recruitment phrase, verification
\* wording and a generic text input, check2FA does not ask for a code.
C16_ExclusionPhraseNever2FA ==
    (op = "check2FA" /\ pageBefore.recruit /\ pageBefore.tfaText
        /\ pageBefore.textInput)
        => ret = "false"

\* C16 as amended: the same, for pages on which no 2FA code input is
\* visible (a visible code input asks for a code whatever the text says).
C16_ExclusionPhraseNoVisibleCodeInput ==
    (op = "check2FA" /\ pageBefore.recruit /\ pageBefore.tfaText
        /\ pageBefore.textInput /\ pageBefore.codeInput # "visible")
        => ret = "false"

C16_Witness ==
    /\ op = "check2FA"
    /\ pageBefore.urlLogin
    /\ pageBefore.recruit /\ pageBefore.tfaText /\ pageBefore.textInput
    /\ pageBefore.codeInput = "hidden"
    /\ ret = "false"

\* C30: checkLoginStatus and check2FA only read the page: the page after
\* the call is the page before it.
C30_ChecksArePureReads ==
    op \in {"checkLoginStatus", "check2FA"} => page = pageBefore

(***************************************************************************)
(* telegram.js: texts, the code grammar and the sender test.               *)
(* A text is a sequence of one-character strings.                          *)
(***************************************************************************)
Digits == {"0", "1", "2", "3", "4", "5", "6", "7", "8", "9"}
Spaces == {" ", "\t", "\n"}

\* length of a verification code: \d{6}
CodeLen == 6

\* the command word of /^\/mtcode\s+(\d{6})$/i
CmdWord == <<"/", "m", "t", "c", "o", "d", "e">>

\* case folding of the i flag, on the letters of the command word
Lower(c) ==
    CASE c = "M" -> "m" [] c = "T" -> "t" [] c = "C" -> "c"
      [] c = "O" -> "o" [] c = "D" -> "d" [] c = "E" -> "e"
      [] OTHER -> c

AllIn(t, S) == \A i \in 1..Len(t) : t[i] \in S

RECURSIVE TrimLeft(_)
TrimLeft(t) ==
    IF t # <<>> /\ Head(t) \in Spaces THEN TrimLeft(Tail(t)) ELSE t

RECURSIVE TrimRight(_)
TrimRight(t) ==
    IF t # <<>> /\ t[Len(t)] \in Spaces
    THEN TrimRight(SubSeq(t, 1, Len(t) - 1))
    ELSE t

\* String.prototype.trim
Trim(t) == TrimRight(TrimLeft(t))

\* text.match(/^\/mtcode\s+(\d{6})$/i): the captured group, or <<>>
cmdMatch(t) ==
    LET n  == Len(t)
        w  == Len(CmdWord)
    IN  IF /\ n >= w + 1 + CodeLen
           /\ \A i \in 1..w : Lower(t[i]) = CmdWord[i]
           /\ AllIn(SubSeq(t, w + 1, n - CodeLen), Spaces)
           /\ AllIn(SubSeq(t, n - CodeLen + 1, n), Digits)
        THEN SubSeq(t, n - CodeLen + 1, n)
        ELSE <<>>

\* text.match(/^(\d{6})$/): the captured group, or <<>>
numMatch(t) ==
    IF Len(t) = CodeLen /\ AllIn(t, Digits) THEN t ELSE <<>>

\* the code a message text carries (telegram.js 111-130), <<>> for none
ExtractCode(text) ==
    LET t == Trim(text)
    IN  IF cmdMatch(t) # <<>> THEN cmdMatch(t) ELSE numMatch(t)

DigitChar(d) ==
    CASE d = 0 -> "0" [] d = 1 -> "1" [] d = 2 -> "2" [] d = 3 -> "3"
      [] d = 4 -> "4" [] d = 5 -> "5" [] d = 6 -> "6" [] d = 7 -> "7"
      [] d = 8 -> "8" [] d = 9 -> "9"

\* String(n) of a non-negative integer
RECURSIVE ToStr(_)
ToStr(n) ==
    IF n < 10 THEN <<DigitChar(n)>>
    ELSE Append(ToStr(n \div 10), DigitChar(n % 10))

\* config.TG_USER_ID, an environment string, and the Telegram user id it
\* names
TG_USER_ID == <<"7">>
RecipientId == 7

\* the sender test without the comparison with TG_USER_ID
CodeOf_anySender(u) ==
    IF u.hasMessage /\ u.hasFrom
    THEN ExtractCode(u.text)
    ELSE <<>>

\* the code an update yields: only a message from the configured user
\* is looked at (telegram.js 107-136)
CodeOf(u) ==
    IF u.hasMessage /\ u.hasFrom /\ ToStr(u.from) = TG_USER_ID
    THEN ExtractCode(u.text)
    ELSE <<>>

(***************************************************************************)
(* The transport (Telegram getUpdates) as telegram.js uses it.             *)
(***************************************************************************)
\* number of updates the transport receives in one behaviour
MaxUpdates == 2
\* TFA_TIMEOUT measured in poll intervals (scaled down)
TimeoutIntervals == 2
\* number of waitForVerificationCode calls in one behaviour
MaxWaits == 2

C_bare   == <<"1", "2", "3", "4", "5", "6">>
C_bare2  == <<"6", "5", "4", "3", "2", "1">>

\* update contents the responder, other chat members and the transport
\* produce
UpdateSamples ==
    { [hasMessage |-> TRUE,  hasFrom |-> TRUE,  from |-> 7,  text |-> C_bare],
      [hasMessage |-> TRUE,  hasFrom |-> TRUE,  from |-> 7,
       text |-> <<"/", "M", "t", "c", "o", "d", "e", " ", "\n">> \o C_bare2 \o <<" ">>],
      [hasMessage |-> TRUE,  hasFrom |-> TRUE,  from |-> 7,
       text |-> <<"/", "m", "t", "c", "o", "d", "e">> \o C_bare],
      [hasMessage |-> TRUE,  hasFrom |-> TRUE,  from |-> 7,
       text |-> C_bare \o <<"7">>],
      [hasMessage |-> TRUE,  hasFrom |-> TRUE,  from |-> 7,
       text |-> <<"o", "k", " ">> \o C_bare],
      [hasMessage |-> TRUE,  hasFrom |-> TRUE,  from |-> 7,  text |-> <<>>],
      [hasMessage |-> TRUE,  hasFrom |-> TRUE,  from |-> 8,  text |-> C_bare],
      [hasMessage |-> TRUE,  hasFrom |-> TRUE,  from |-> 77, text |-> C_bare2],
      [hasMessage |-> TRUE,  hasFrom |-> FALSE, from |-> 0,  text |-> C_bare],
      [hasMessage |-> FALSE, hasFrom |-> FALSE, from |-> 0,  text |-> <<>>] }

MkUpdate(id, c) ==
    [update_id |-> id, hasMessage |-> c.hasMessage, hasFrom |-> c.hasFrom,
     from |-> c.from, text |-> c.text]

Ids(q) == { q[i].update_id : i \in 1..Len(q) }

\* getUpdates(offset): a negative offset keeps the last -offset updates and
\* forgets the earlier ones; otherwise the updates below offset are
\* confirmed (removed) and the rest is returned, oldest first.
GetUpdates(q, offset) ==
    IF offset < 0
    THEN LET k == IF -offset < Len(q) THEN -offset ELSE Len(q)
         IN  SubSeq(q, Len(q) - k + 1, Len(q))
    ELSE SelectSeq(q, LAMBDA u : u.update_id >= offset)

\* the offset of a poll that asks again for the last processed update
PollOffset_noIncrement == lastUpdateId

\* params.offset of the poll in waitForVerificationCode (telegram.js 97)
PollOffset == lastUpdateId + 1

\* index of the first update of a batch that yields a code, 0 if none
FirstCodeIdx(batch) ==
    IF \E i \in 1..Len(batch) : CodeOf(batch[i]) # <<>>
    THEN CHOOSE i \in 1..Len(batch) :
            /\ CodeOf(batch[i]) # <<>>
            /\ \A j \in 1..(i - 1) : CodeOf(batch[j]) = <<>>
    ELSE 0

IdSeq(batch, n) == [ i \in 1..n |-> batch[i].update_id ]

\* the cursor moved only by an update that carries a code
CursorAfter_onlyOnCode(cur, batch, hit) ==
    IF hit > 0 THEN batch[hit].update_id ELSE cur

\* lastUpdateId = update.update_id for every update the loop reaches
\* (telegram.js 103-104): the loop ends at the first update with a code
CursorAfter(cur, batch, hit) ==
    IF hit > 0 THEN batch[hit].update_id ELSE batch[Len(batch)].update_id

\* the update of the transport's queue with this id
UpdateById(q, id) == CHOOSE u \in { q[i] : i \in 1..Len(q) } : u.update_id = id

\* a new update reaches the transport
Arrive ==
    /\ nextId <= MaxUpdates
    /\ \E c \in UpdateSamples : queue' = Append(queue, MkUpdate(nextId, c))
    /\ nextId' = nextId + 1
    /\ UNCHANGED <<lastUpdateId, tpc, elapsed, sent, codeRet, retUpdate,
                   consumedLog, staleIds, inited>>
    /\ UNCHANGED pageVars
    /\ UNCHANGED storeVars
    /\ UNCHANGED loginVars

\* initUpdates (telegram.js 62-74): getUpdates with offset -1; on an ok,
\* non-empty answer the cursor becomes the last update_id; a failed request
\* is logged and nothing else happens.
InitUpdates ==
    /\ tpc = "idle"
    /\ inited' = TRUE
    /\ staleIds' = Ids(queue)
    /\ \E answer \in {"ok", "notok", "throw"} :
        IF answer = "ok"
        THEN LET result == GetUpdates(queue, -1) IN
             /\ queue' = result
             /\ lastUpdateId' = IF Len(result) > 0
                                THEN result[Len(result)].update_id
                                ELSE lastUpdateId
        ELSE UNCHANGED <<queue, lastUpdateId>>
    /\ codeRet' = NoResult
    /\ retUpdate' = NoUpdate
    /\ UNCHANGED <<nextId, tpc, elapsed, sent, consumedLog>>
    /\ UNCHANGED pageVars
    /\ UNCHANGED storeVars
    /\ UNCHANGED loginVars

\* waitForVerificationCode, entry (telegram.js 85-91): the prompt is sent;
\* a failing sendMessage throws out of the call.
WaitStart ==
    /\ tpc = "idle"
    /\ inited
    /\ sent.prompt < MaxWaits
    /\ \E sendOk \in BOOLEAN :
        IF sendOk
        THEN /\ sent' = [sent EXCEPT !.prompt = @ + 1]
             /\ tpc' = "polling"
             /\ elapsed' = 0
             /\ codeRet' = NoResult
             /\ retUpdate' = NoUpdate
        ELSE /\ codeRet' = [kind |-> "throw", code |-> <<>>]
             /\ retUpdate' = NoUpdate
             /\ UNCHANGED <<sent, tpc, elapsed>>
    /\ UNCHANGED <<lastUpdateId, queue, nextId, consumedLog, staleIds, inited>>
    /\ UNCHANGED pageVars
    /\ UNCHANGED storeVars
    /\ UNCHANGED loginVars

\* one iteration of the poll loop (telegram.js 93-146)
WaitPoll ==
    /\ tpc = "polling"
    /\ elapsed < TimeoutIntervals
    /\ \E answer \in {"ok", "notok", "throw"}, ackOk \in BOOLEAN, d \in {1, 2} :
        LET batch == GetUpdates(queue, PollOffset)
            hit   == FirstCodeIdx(batch)
        IN
        IF answer = "ok" /\ Len(batch) > 0
        THEN /\ queue' = batch
             /\ lastUpdateId' = CursorAfter(lastUpdateId, batch, hit)
             /\ IF hit > 0
                THEN /\ consumedLog' = consumedLog \o IdSeq(batch, hit)
                     /\ IF ackOk
                        THEN \* acknowledgement sent, the code is returned
                             /\ sent' = [sent EXCEPT !.ack = @ + 1]
                             /\ codeRet' = [kind |-> "code",
                                            code |-> CodeOf(batch[hit])]
                             /\ retUpdate' = batch[hit]
                             /\ tpc' = "idle"
                             /\ UNCHANGED elapsed
                        ELSE \* sendMessage throws inside the try block: the
                             \* catch logs it and the loop goes on
                             /\ elapsed' = elapsed + d
                             /\ UNCHANGED <<sent, codeRet, retUpdate, tpc>>
                ELSE /\ consumedLog' = consumedLog \o IdSeq(batch, Len(batch))
                     /\ elapsed' = elapsed + d
                     /\ UNCHANGED <<sent, codeRet, retUpdate, tpc>>
        ELSE /\ queue' = IF answer = "throw" THEN queue ELSE batch
             /\ elapsed' = elapsed + d
             /\ UNCHANGED <<lastUpdateId, consumedLog, sent, codeRet,
                            retUpdate, tpc>>
    /\ UNCHANGED <<nextId, staleIds, inited>>
    /\ UNCHANGED pageVars
    /\ UNCHANGED storeVars
    /\ UNCHANGED loginVars

\* the loop condition fails (telegram.js 148-150): the timeout notice is
\* sent and null returned; a failing sendMessage throws out of the call.
WaitTimeout ==
    /\ tpc = "polling"
    /\ elapsed >= TimeoutIntervals
    /\ \E sendOk \in BOOLEAN :
        IF sendOk
        THEN /\ sent' = [sent EXCEPT !.timeout = @ + 1]
             /\ codeRet' = [kind |-> "null", code |-> <<>>]
        ELSE /\ codeRet' = [kind |-> "throw", code |-> <<>>]
             /\ UNCHANGED sent
    /\ tpc' = "idle"
    /\ UNCHANGED <<lastUpdateId, queue, nextId, elapsed, retUpdate,
                   consumedLog, staleIds, inited>>
    /\ UNCHANGED pageVars
    /\ UNCHANGED storeVars
    /\ UNCHANGED loginVars

InitChannel ==
    /\ IdlePage
    /\ IdleChan
    /\ IdleStore
    /\ IdleLogin

NextChannel ==
    \/ Arrive
    \/ InitUpdates
    \/ WaitStart
    \/ WaitPoll
    \/ WaitTimeout

SpecChannel == InitChannel /\ [][NextChannel]_vars

(***************************************************************************)
(* Claims on the channel.                                                  *)
(***************************************************************************)
StrictlyIncreasing(s) == \A i, j \in 1..Len(s) : i < j => s[i] < s[j]

\* C4: the cursor lastUpdateId never decreases, and the update_ids the
\* poll loop processes are strictly increasing: no poll processes an
\* update whose id is at most an id consumed before.
C4_CursorMonotone ==
    [][ /\ lastUpdateId' >= lastUpdateId
        /\ StrictlyIncreasing(consumedLog') ]_vars

C4_Witness ==
    /\ Len(consumedLog) >= 2
    /\ sent.prompt >= 2
    /\ lastUpdateId = consumedLog[Len(consumedLog)]
    /\ lastUpdateId >= 2

\* C5: a code carried by an update that was pending when initUpdates was
\* called is never returned by a later waitForVerificationCode.
C5_StaleCodeNeverReturned ==
    codeRet.kind = "code" => retUpdate.update_id \notin staleIds

\* C6: a returned code is exactly six decimal digits, taken from a message
\* whose sender id is the configured recipient, and the message text is,
\* up to surrounding whitespace, the bare code or the /mtcode command
\* followed by whitespace and the code.
IsBareCode(text, code) ==
    \E a, b \in 0..Len(text) :
        /\ a + CodeLen + b = Len(text)
        /\ AllIn(SubSeq(text, 1, a), Spaces)
        /\ SubSeq(text, a + 1, a + CodeLen) = code
        /\ AllIn(SubSeq(text, a + CodeLen + 1, Len(text)), Spaces)

IsCommandCode(text, code) ==
    \E a, b \in 0..Len(text), g \in 1..Len(text) :
        /\ a + Len(CmdWord) + g + CodeLen + b = Len(text)
        /\ AllIn(SubSeq(text, 1, a), Spaces)
        /\ \A i \in 1..Len(CmdWord) : Lower(text[a + i]) = CmdWord[i]
        /\ AllIn(SubSeq(text, a + Len(CmdWord) + 1, a + Len(CmdWord) + g), Spaces)
        /\ SubSeq(text, a + Len(CmdWord) + g + 1, Len(text) - b) = code
        /\ AllIn(SubSeq(text, Len(text) - b + 1, Len(text)), Spaces)

C6_CodeOnlyFromRecipientInGrammar ==
    codeRet.kind = "code" =>
        /\ Len(codeRet.code) = CodeLen
        /\ AllIn(codeRet.code, Digits)
        /\ retUpdate.hasMessage /\ retUpdate.hasFrom
        /\ retUpdate.from = RecipientId
        /\ IsBareCode(retUpdate.text, codeRet.code)
             \/ IsCommandCode(retUpdate.text, codeRet.code)

C6_Witness ==
    /\ codeRet.kind = "code"
    /\ codeRet.code = C_bare2
    /\ retUpdate.from = RecipientId
    /\ \E i \in 1..Len(consumedLog) : consumedLog[i] < retUpdate.update_id

\* C21: every update the poll loop has reached is behind the cursor and is
\* not in the answer to the next poll, and an update from another sender
\* or outside the code grammar is never the one a code is returned from.
C21_IgnoredMessagesConsumed ==
    /\ \A i \in 1..Len(consumedLog) :
          /\ consumedLog[i] <= lastUpdateId
          /\ consumedLog[i] \notin Ids(GetUpdates(queue, PollOffset))
    /\ codeRet.kind = "code" => CodeOf(retUpdate) = codeRet.code

C21_Witness ==
    /\ tpc = "polling"
    /\ Len(consumedLog) = 2
    /\ lastUpdateId = 2
    /\ Len(queue) = 2
    /\ CodeOf(queue[1]) = <<>> /\ queue[1].from # RecipientId
    /\ CodeOf(queue[2]) = <<>> /\ queue[2].from = RecipientId
    /\ codeRet.kind = "none"

\* C22: when the poll loop reaches an update that carries a code (the
\* cursor moves onto it), that code is returned by this very step and one
\* acknowledgement is sent.
C22_CodeReturnedWithAck ==
    [][ ( /\ tpc = "polling"
          /\ lastUpdateId' # lastUpdateId
          /\ CodeOf(UpdateById(queue, lastUpdateId')) # <<>> )
        => ( /\ tpc' = "idle"
             /\ codeRet'.kind = "code"
             /\ retUpdate'.update_id = lastUpdateId'
             /\ sent'.ack = sent.ack + 1 ) ]_vars

\* C23: a wait that ends without a code ends after the timeout has elapsed
\* and with the absent result (null), not with an exception.
C23_TimeoutReturnsAbsent ==
    [][ (tpc = "polling" /\ tpc' = "idle" /\ codeRet'.kind # "code")
        => (elapsed >= TimeoutIntervals /\ codeRet'.kind = "null") ]_vars

\* C39: a call that returns a code leaves the cursor on the accepted
\* update, and the updates after it stay with the transport; the next
\* answered poll of a later call starts right after the cursor, and when
\* its batch holds a valid code that call returns it.
C39_LaterCodeReturnedByNextCall ==
    /\ [](codeRet.kind = "code" =>
            /\ lastUpdateId = retUpdate.update_id
            /\ \A id \in (lastUpdateId + 1)..(nextId - 1) : id \in Ids(queue))
    /\ [][(tpc = "polling" /\ sent.ack >= 1 /\ lastUpdateId' # lastUpdateId) =>
            LET batch == GetUpdates(queue, PollOffset)
                hit   == FirstCodeIdx(batch)
            IN  /\ batch[1].update_id = lastUpdateId + 1
                /\ hit > 0 => /\ codeRet'.kind = "code"
                              /\ codeRet'.code = CodeOf(batch[hit])]_vars

(***************************************************************************)
(* Session store: the text of a stored session and JSON.parse.             *)
(* A text is a sequence of tokens: brackets, commas, keys, scalars and     *)
(* whole cookie / origin objects.                                          *)
(***************************************************************************)
Scalars == {"null", "false", "true", "0", "1", "str0", "str1"}
\* "C": a cookie object with all its fields, "c": a cookie object that
\* lacks its value, "O": an origin object with its localStorage
Atoms   == {"C", "c", "O"}
Keys    == {"cookies:", "origins:", "other:"}
Tokens  == Scalars \cup Atoms \cup Keys \cup {"{", "}", "[", "]", ","}

ParseFail == [ok |-> FALSE, next |-> 0, val |-> Undefined]

RECURSIVE ParseValue(_, _)
RECURSIVE ParseElems(_, _, _, _)
RECURSIVE ParseMembers(_, _, _, _)

\* elements of an array from position i; first: nothing read yet
ParseElems(t, i, acc, first) ==
    IF i > Len(t) THEN ParseFail
    ELSE IF t[i] = "]" /\ (first \/ acc # <<>>)
    THEN [ok |-> TRUE, next |-> i + 1, val |-> [kind |-> "arr", items |-> acc]]
    ELSE IF first
    THEN LET v == ParseValue(t, i) IN
         IF v.ok THEN ParseElems(t, v.next, <<v.val>>, FALSE) ELSE ParseFail
    ELSE IF t[i] = ","
    THEN LET v == ParseValue(t, i + 1) IN
         IF v.ok THEN ParseElems(t, v.next, Append(acc, v.val), FALSE)
         ELSE ParseFail
    ELSE ParseFail

\* members of an object from position i
ParseMembers(t, i, acc, first) ==
    IF i > Len(t) THEN ParseFail
    ELSE IF t[i] = "}" /\ (first \/ acc # <<>>)
    THEN [ok |-> TRUE, next |-> i + 1, val |-> [kind |-> "obj", items |-> acc]]
    ELSE LET k == IF first THEN i ELSE i + 1 IN
         IF /\ (first \/ t[i] = ",")
            /\ k <= Len(t)
            /\ t[k] \in Keys
         THEN LET v == ParseValue(t, k + 1) IN
              IF v.ok
              THEN ParseMembers(t, v.next,
                                Append(acc, [key |-> t[k], val |-> v.val]), FALSE)
              ELSE ParseFail
         ELSE ParseFail

ParseValue(t, i) ==
    IF i > Len(t) THEN ParseFail
    ELSE IF t[i] \in Scalars \cup Atoms
    THEN [ok |-> TRUE, next |-> i + 1, val |-> [kind |-> t[i], items |-> <<>>]]
    ELSE IF t[i] = "[" THEN ParseElems(t, i + 1, <<>>, TRUE)
    ELSE IF t[i] = "{" THEN ParseMembers(t, i + 1, <<>>, TRUE)
    ELSE ParseFail

\* JSON.parse(text): the value, or ok = FALSE when it throws
JSONparse(t) ==
    LET r == ParseValue(t, 1) IN
    IF r.ok /\ r.next = Len(t) + 1 THEN r ELSE ParseFail

\* value.key of a parsed value: the last member of that key, else undefined
Get(v, key) ==
    IF v.kind = "obj" /\ \E i \in 1..Len(v.items) : v.items[i].key = key
    THEN LET last == CHOOSE i \in 1..Len(v.items) :
                        /\ v.items[i].key = key
                        /\ \A j \in (i + 1)..Len(v.items) : v.items[j].key # key
         IN  v.items[last].val
    ELSE Undefined

\* JavaScript truthiness
Truthy(v) == v.kind \notin {"undefined", "null", "false", "0", "str0"}

\* getSessionState (part_003 51-77): the file when it exists, reads and is
\* non-empty and parses; else MT_SESSION when set and it parses; else null.
\* Whatever JSON.parse returns for the file is returned as it is.
getSessionState(exists, readOk, file, env) ==
    IF exists /\ readOk /\ file # <<>> /\ JSONparse(file).ok
    THEN [src |-> "file", val |-> JSONparse(file).val]
    ELSE IF env # <<>> /\ JSONparse(env).ok
         THEN [src |-> "env", val |-> JSONparse(env).val]
         ELSE NoDoc

\* createBrowser (part_003 36-42): the saved state is handed to the context
\* when it is truthy and has a truthy cookies or origins member
Applies(doc) ==
    /\ Truthy(doc.val)
    /\ Truthy(Get(doc.val, "cookies:")) \/ Truthy(Get(doc.val, "origins:"))

ArrayOf(v, atom) ==
    /\ v.kind = "arr"
    /\ \A i \in 1..Len(v.items) : v.items[i].kind = atom

\* browser.newContext({storageState}) accepts a state whose cookies and
\* origins are each absent or an array of well-formed entries
AcceptableState(v) ==
    /\ v.kind = "obj"
    /\ Get(v, "cookies:").kind = "undefined" \/ ArrayOf(Get(v, "cookies:"), "C")
    /\ Get(v, "origins:").kind = "undefined" \/ ArrayOf(Get(v, "origins:"), "O")

\* a snapshot with both of its parts
FullSnapshot(v) ==
    /\ v.kind = "obj"
    /\ ArrayOf(Get(v, "cookies:"), "C")
    /\ ArrayOf(Get(v, "origins:"), "O")

\* JSON.stringify(await context.storageState())
ValidText ==
    <<"{", "cookies:", "[", "C", "]", ",", "origins:", "[", "O", "]", "}">>

Truncations == { SubSeq(ValidText, 1, k) : k \in 0..(Len(ValidText) - 1) }

Corruptions ==
    { [ValidText EXCEPT ![i] = tok] :
        i \in 1..Len(ValidText), tok \in Tokens } \ {ValidText}

\* a file that holds one JSON scalar (JSON.stringify of a non-object)
ScalarTexts == { <<sc>> : sc \in Scalars }

FileTexts == {ValidText} \cup Truncations \cup Corruptions \cup ScalarTexts

EnvTexts == { <<>>, ValidText, SubSeq(ValidText, 1, 5),
              <<"{", "cookies:", "[", "c", "]", "}">> }

(***************************************************************************)
(* SpecStore: getSessionState and createBrowser over every stored text.    *)
(***************************************************************************)
InitStore ==
    /\ IdlePage
    /\ IdleChan
    /\ pc = "s_start"
    /\ fileExists \in BOOLEAN
    /\ fileTxt \in FileTexts
    /\ fileExists = FALSE => fileTxt = <<>>
    /\ envTxt \in EnvTexts
    /\ savedDoc = NoDoc
    /\ applied = FALSE
    /\ ctx = "none"
    /\ IdleLogin

Store_getSessionState ==
    /\ pc = "s_start"
    /\ \E readOk \in BOOLEAN :
         savedDoc' = getSessionState(fileExists, readOk, fileTxt, envTxt)
    /\ pc' = "s_loaded"
    /\ UNCHANGED <<fileExists, fileTxt, envTxt, applied, ctx>>
    /\ UNCHANGED pageVars
    /\ UNCHANGED chanVars
    /\ UNCHANGED loginVars

Store_createBrowser ==
    /\ pc = "s_loaded"
    /\ applied' = Applies(savedDoc)
    /\ ctx' = IF Applies(savedDoc) /\ ~AcceptableState(savedDoc.val)
              THEN "throw" ELSE "ok"
    /\ pc' = "s_created"
    /\ UNCHANGED <<fileExists, fileTxt, envTxt, savedDoc>>
    /\ UNCHANGED pageVars
    /\ UNCHANGED chanVars
    /\ UNCHANGED loginVars

NextStore ==
    \/ Store_getSessionState
    \/ Store_createBrowser

SpecStore == InitStore /\ [][NextStore]_vars

(***************************************************************************)
(* Claims on the session store.                                            *)
(***************************************************************************)
FileDamaged == fileExists /\ fileTxt # ValidText

\* what a backend yields: parseable, non-empty content
Yields(txt) == txt # <<>> /\ JSONparse(txt).ok

\* C8: from a truncated or corrupt session file getSessionState yields no
\* snapshot: the result is absent or comes from the lower-priority backend,
\* and no value of the damaged file is applied to the browser context.
C8_DamagedFileYieldsNoSnapshot ==
    (pc \in {"s_loaded", "s_created"} /\ FileDamaged) =>
        /\ savedDoc.src = "file" => ~Truthy(savedDoc.val)
        /\ applied => savedDoc.src = "env"

\* C24: getSessionState returns the parsed content of the first backend
\* that yields: the file's when the result is the file's, the environment
\* value's only when the result is not the file's; and it returns absent
\* (null, or another falsy value) only when no backend yields.
C24_BackendPriority ==
    pc = "s_loaded" =>
        /\ savedDoc.src = "file" =>
              (fileExists /\ Yields(fileTxt)
                 /\ savedDoc.val = JSONparse(fileTxt).val)
        /\ savedDoc.src = "env" =>
              (Yields(envTxt) /\ savedDoc.val = JSONparse(envTxt).val)
        /\ savedDoc.src = "none" => ~Yields(envTxt)
        /\ ~Truthy(savedDoc.val) => ~Yields(envTxt)

(***************************************************************************)
(* Login flow: main() (main.js 48-144), login() (part_003 85-178) and      *)
(* handle2FA (part_003 330-410) against a remote site.                     *)
(***************************************************************************)
\* const MAX_ATTEMPTS = 10
MAX_ATTEMPTS == 10
\* number of acquisitions, one after the other
MaxRuns == 2

\* pages the site answers with
LoginForm  == [NoPage EXCEPT !.urlLogin = TRUE, !.anyInput = TRUE,
                            !.pwdInput = TRUE]
LoginError == [LoginForm EXCEPT !.errorElems = TRUE]
DevicePage == [NoPage EXCEPT !.urlLogin = TRUE, !.deviceText = TRUE]
TfaPage    == [NoPage EXCEPT !.urlLogin = TRUE, !.codeInput = "visible",
                            !.tfaText = TRUE, !.anyInput = TRUE,
                            !.textInput = TRUE]
TfaError   == [TfaPage EXCEPT !.errorElems = TRUE]
TfaNoInput == [NoPage EXCEPT !.urlLogin = TRUE, !.tfaText = TRUE]
HomePage   == [NoPage EXCEPT !.titleMarker = TRUE, !.userElem = TRUE]
HomeNotice == [HomePage EXCEPT !.dialog = TRUE, !.tfaText = TRUE,
                             !.recruit = TRUE]
\* the home page under an announcement that talks about verification,
\* with the site's search box
HomeVerify == [HomePage EXCEPT !.dialog = TRUE, !.tfaText = TRUE,
                             !.anyInput = TRUE, !.textInput = TRUE]
OtherPage  == NoPage

SitePages == {LoginForm, LoginError, DevicePage, TfaPage, TfaError,
              TfaNoInput, HomePage, HomeNotice, HomeVerify, OtherPage}

\* findCodeInput (part_003 415-440): any element of the selector list,
\* visible or not
findCodeInput(p) == p.codeInput # "none" \/ p.textInput

\* the loop condition with the bound included
H_loopGuard_inclusive(attempt) == attempt <= MAX_ATTEMPTS

\* while (attempt < MAX_ATTEMPTS)
H_loopGuard(attempt) == attempt < MAX_ATTEMPTS

\* the attempt counter left where it is
NextAttempt_stuck(attempt) == attempt

\* the attempt counter stepped by two
NextAttempt_double(attempt) == attempt + 2

\* attempt++
NextAttempt(attempt) == attempt + 1

\* handle2FA 342: the line with the remaining count is added to the prompt
\* from the second attempt on
RemainingShown(attempt) == attempt > 1

\* the remaining count without the current attempt
RemainingCount_excludingCurrent(attempt) == MAX_ATTEMPTS - attempt

\* handle2FA 343: ${MAX_ATTEMPTS - attempt + 1}
RemainingCount(attempt) == MAX_ATTEMPTS - attempt + 1

\* a missing code that is not noticed
NoCode_never(code) == FALSE

\* if (!code): waitForVerificationCode returned null
NoCode(code) == code = "null"

\* a login result that is not looked at
LoginSucceeded_any(result) == TRUE

\* if (!loginResult.success) throw
LoginSucceeded(result) == result = "success"

\* the condition of step 4 when the validation result is ignored
NeedsLogin_always(isLoggedIn) == TRUE

\* if (!isLoggedIn)
NeedsLogin(isLoggedIn) == ~isLoggedIn

\* variables the login flow never touches
restVars == <<pageBefore, op, ret, lastUpdateId, queue, nextId, tpc, elapsed,
              sent, codeRet, retUpdate, consumedLog, staleIds, inited,
              fileExists, fileTxt>>

LoginFiles == { <<>>, ValidText, SubSeq(ValidText, 1, 5), <<"1">>,
                <<"{", "cookies:", "[", "C", "]", "}">>,
                <<"{", "cookies:", "[", "c", "]", ",", "origins:", "[", "O", "]", "}">> }

LoginEnvs == { <<>>, ValidText }

InitLogin ==
    /\ IdlePage
    /\ IdleChan
    /\ pc = "m_start"
    /\ fileTxt \in LoginFiles
    /\ fileExists = (fileTxt # <<>>)
    /\ envTxt \in LoginEnvs
    /\ savedDoc = NoDoc
    /\ applied = FALSE
    /\ ctx = "none"
    /\ run = 1
    /\ browserSt = "none"
    /\ loc = NoLocals
    /\ mn = NoMain
    /\ err = "none"
    /\ hist = NoHist

\* an error thrown inside the try block of login()
Throw(e) == err' = e /\ pc' = "l_catch"

\* config.js 41: const required = [...]
Required == {"MT_USERNAME", "MT_PASSWORD", "TG_BOT_TOKEN", "TG_USER_ID"}

\* a validation that looks at the site's credentials only
validateConfig_credentialsOnly(present) ==
    {"MT_USERNAME", "MT_PASSWORD"} \subseteq present

\* validateConfig (config.js 40-50): no required key may be missing
\* (unset or empty); present: the keys with a truthy value
validateConfig(present) ==
    LET missing == { key \in Required : key \notin present }
    IN  missing = {}

\* main.js 56-65: validateConfig throws when a required setting is missing;
\* the random delay that follows ends by itself
Main_start ==
    /\ pc = "m_start"
    /\ \E present \in SUBSET Required :
        /\ mn' = [mn EXCEPT !.settings = present]
        /\ IF validateConfig(present)
           THEN /\ pc' = "l_init"
                /\ UNCHANGED err
           ELSE /\ pc' = "m_catch"
                /\ err' = "config"
    /\ UNCHANGED <<page, envTxt, savedDoc, applied, ctx, run, browserSt, loc,
                   hist>>
    /\ UNCHANGED restVars

\* part_003 92: initUpdates asks the transport once and never throws
Login_initUpdates ==
    /\ pc = "l_init"
    /\ hist' = [hist EXCEPT !.polls = @ + 1]
    /\ pc' = "l_store"
    /\ UNCHANGED <<page, envTxt, savedDoc, applied, ctx, run, browserSt, loc,
                   mn, err>>
    /\ UNCHANGED restVars

\* part_003 95
Login_getSessionState ==
    /\ pc = "l_store"
    /\ \E readOk \in BOOLEAN :
         savedDoc' = getSessionState(fileExists, readOk, fileTxt, envTxt)
    /\ pc' = "l_launch"
    /\ UNCHANGED <<page, envTxt, applied, ctx, run, browserSt, loc, mn, err,
                   hist>>
    /\ UNCHANGED restVars

\* part_003 99-101 with createBrowser 16-46: the browser is launched, then
\* the context is made; login's browser variable is assigned only when
\* createBrowser returns
Login_createBrowser ==
    /\ pc = "l_launch"
    /\ \E launchOk \in BOOLEAN :
        IF ~launchOk
        THEN /\ Throw("launch")
             /\ UNCHANGED <<browserSt, applied, ctx, loc>>
        ELSE /\ browserSt' = "open"
             /\ applied' = Applies(savedDoc)
             /\ IF Applies(savedDoc) /\ ~AcceptableState(savedDoc.val)
                THEN /\ ctx' = "throw"
                     /\ Throw("newContext")
                     /\ UNCHANGED loc
                ELSE /\ ctx' = "ok"
                     /\ loc' = [loc EXCEPT !.browser = TRUE]
                     /\ pc' = "l_newPage"
                     /\ UNCHANGED err
    /\ UNCHANGED <<page, envTxt, savedDoc, run, mn, hist>>
    /\ UNCHANGED restVars

\* part_003 104-109
Login_newPage ==
    /\ pc = "l_newPage"
    /\ \E ok \in BOOLEAN :
        IF ok
        THEN /\ loc' = [loc EXCEPT !.page = TRUE]
             /\ page' = NoPage
             /\ pc' = IF Truthy(savedDoc.val) THEN "l_validate"
                      ELSE "l_gotoLogin"
             /\ UNCHANGED err
        ELSE /\ Throw("newPage")
             /\ UNCHANGED <<loc, page>>
    /\ UNCHANGED <<envTxt, savedDoc, applied, ctx, run, browserSt, mn, hist>>
    /\ UNCHANGED restVars

\* the validation without its try/catch (the older auth.js 899-911)
ValidateOutcome_noCatch(gotoOk, status) ==
    IF ~gotoOk \/ status = "throw" THEN "throw"
    ELSE IF status = "true" THEN "loggedIn" ELSE "invalid"

\* part_003 111-123: goto and checkLoginStatus inside try/catch; an error
\* of either is logged and isLoggedIn stays false
ValidateOutcome(gotoOk, status) ==
    IF gotoOk /\ status = "true" THEN "loggedIn" ELSE "invalid"

\* part_003 109-127: the restored session is validated on the index page
Login_validate ==
    /\ pc = "l_validate"
    /\ \E gotoOk \in BOOLEAN, p \in SitePages :
        LET st   == checkLoginStatus(p)
            out  == ValidateOutcome(gotoOk, st.ret)
            isIn == out = "loggedIn"
        IN  /\ page' = IF gotoOk THEN st.page ELSE page
            /\ loc' = [loc EXCEPT !.isLoggedIn = isIn]
            /\ hist' = [hist EXCEPT !.restoredOk = isIn, !.authOk = isIn]
            /\ IF out = "throw"
               THEN Throw("validate")
               ELSE /\ pc' = IF NeedsLogin(isIn) THEN "l_gotoLogin"
                             ELSE "l_extract"
                    /\ UNCHANGED err
    /\ UNCHANGED <<envTxt, savedDoc, applied, ctx, run, browserSt, mn>>
    /\ UNCHANGED restVars

\* part_003 129
Login_gotoLogin ==
    /\ pc = "l_gotoLogin"
    /\ \E ok \in BOOLEAN, p \in SitePages :
        IF ok
        THEN /\ page' = p
             /\ pc' = "l_perform"
             /\ UNCHANGED err
        ELSE /\ Throw("gotoLogin")
             /\ UNCHANGED page
    /\ UNCHANGED <<envTxt, savedDoc, applied, ctx, run, browserSt, loc, mn,
                   hist>>
    /\ UNCHANGED restVars

\* the fallback click guarded like the candidates' clicks
performLogin_swallow(form, candidate, generic) ==
    IF ~form THEN "throwNoForm"
    ELSE IF candidate = "clicked" \/ generic THEN "submitted"
    ELSE "returned"

\* performLogin (part_003 524-597) up to the submission.  form: the
\* username field appears in time; candidate: no button of the selector
\* list exists ("none"), every click on one throws ("clickThrows"), or one
\* is clicked; generic: page.click('button >> text=/登.*录/') finds its
\* button.  Without any the fallback click throws its timeout error.
\* The fills (539-560) take the first matching input and skip silently
\* when none matches, so they have no part in the outcome.
performLogin(form, candidate, generic) ==
    IF ~form THEN "throwNoForm"
    ELSE IF candidate = "clicked" \/ generic THEN "submitted"
    ELSE "throwNoSubmitPath"

\* part_003 131 with performLogin 524-597; after the submission the wait
\* for the load state may throw
Login_performLogin ==
    /\ pc = "l_perform"
    /\ \E form \in BOOLEAN, candidate \in {"none", "clickThrows", "clicked"},
          generic \in BOOLEAN, loadOk \in BOOLEAN, p \in SitePages :
        LET r == performLogin(form, candidate, generic) IN
        /\ hist' = [hist EXCEPT
                       !.credSubmits = IF r = "submitted" THEN @ + 1 ELSE @,
                       !.noSubmit = form /\ candidate # "clicked" /\ ~generic]
        /\ page' = IF r = "submitted" THEN p ELSE page
        /\ CASE r = "submitted" /\ loadOk  -> pc' = "l_checkDevice"
                                              /\ UNCHANGED err
             [] r = "submitted" /\ ~loadOk -> Throw("performLogin")
             [] r = "returned"             -> pc' = "l_checkDevice"
                                              /\ UNCHANGED err
             [] r = "throwNoSubmitPath"    -> Throw("NoSubmitPath")
             [] OTHER                      -> Throw("performLogin")
    /\ UNCHANGED <<envTxt, savedDoc, applied, ctx, run, browserSt, loc, mn>>
    /\ UNCHANGED restVars

\* part_003 134
Login_checkDeviceApproval ==
    /\ pc = "l_checkDevice"
    /\ pc' = IF checkDeviceApproval(page).ret = "true" THEN "l_handleDevice"
             ELSE "l_check2FA"
    /\ UNCHANGED <<page, envTxt, savedDoc, applied, ctx, run, browserSt, loc,
                   mn, err, hist>>
    /\ UNCHANGED restVars

\* part_003 135 with handleDeviceApproval 208-226: notice, fixed wait, reload
Login_handleDeviceApproval ==
    /\ pc = "l_handleDevice"
    /\ \E sendOk \in BOOLEAN, p \in SitePages :
        IF sendOk
        THEN /\ hist' = [hist EXCEPT !.enteredDA = TRUE, !.devNotice = @ + 1,
                                     !.stillDA =
                                        checkDeviceApproval(p).ret = "true"]
             /\ page' = p
             /\ pc' = "l_check2FA"
             /\ UNCHANGED err
        ELSE /\ hist' = [hist EXCEPT !.enteredDA = TRUE]
             /\ Throw("sendFailed")
             /\ UNCHANGED page
    /\ UNCHANGED <<envTxt, savedDoc, applied, ctx, run, browserSt, loc, mn>>
    /\ UNCHANGED restVars

\* part_003 137-138
Login_check2FA ==
    /\ pc = "l_check2FA"
    /\ page' = check2FA(page).page
    /\ IF check2FA(page).ret = "true"
       THEN /\ pc' = "h_loop"
            /\ hist' = [hist EXCEPT !.entered2FA = TRUE]
       ELSE /\ pc' = "l_final"
            /\ UNCHANGED hist
    /\ UNCHANGED <<envTxt, savedDoc, applied, ctx, run, browserSt, loc, mn, err>>
    /\ UNCHANGED restVars

\* handle2FA 336-338 and 409: loop head
H_loopHead ==
    /\ pc = "h_loop"
    /\ IF H_loopGuard(loc.attempt)
       THEN /\ loc' = [loc EXCEPT !.attempt = NextAttempt(@)]
            /\ pc' = "h_wait"
            /\ UNCHANGED err
       ELSE /\ Throw("AttemptsExhausted")
            /\ UNCHANGED loc
    /\ UNCHANGED <<page, envTxt, savedDoc, applied, ctx, run, browserSt, mn,
                   hist>>
    /\ UNCHANGED restVars

\* handle2FA 341-352: waitForVerificationCode sends the prompt and returns a
\* code or null, or throws when a message cannot be sent; the page may move
\* on while the flow waits
H_waitForCode ==
    /\ pc = "h_wait"
    /\ hist.prompt <= MAX_ATTEMPTS      \* the history counter is capped
    /\ \E outcome \in {"code", "null", "throwPrompt", "throwNotice"},
          p \in SitePages \cup {page} :
        /\ hist' = IF outcome = "throwPrompt" THEN hist
                   ELSE [hist EXCEPT !.prompt = @ + 1,
                                     !.timedOut = (outcome = "null"),
                                     !.shown = RemainingShown(loc.attempt),
                                     !.left =
                                        IF RemainingShown(loc.attempt)
                                        THEN RemainingCount(loc.attempt)
                                        ELSE 0]
        /\ page' = p
        /\ CASE outcome \in {"code", "null"} ->
                    IF NoCode(outcome)
                    THEN Throw("CodeTimedOut")
                    ELSE pc' = "h_find" /\ UNCHANGED err
             [] OTHER -> Throw("sendFailed")
    /\ UNCHANGED <<envTxt, savedDoc, applied, ctx, run, browserSt, loc, mn>>
    /\ UNCHANGED restVars

\* handle2FA 355-381: without a code input the flow dismisses announcements
\* and returns when logged in, else throws; with one it types the code and
\* submits it; typing (click, fill) throws before the submission, the
\* Enter key or the load-state wait at or after it
H_findCodeInput ==
    /\ pc = "h_find"
    /\ IF findCodeInput(page)
       THEN \E outcome \in {"ok", "throwBefore", "throwAfter"},
               p \in SitePages :
            /\ page' = IF outcome = "throwBefore" THEN page ELSE p
            /\ hist' = IF outcome = "throwBefore" THEN hist
                       ELSE [hist EXCEPT !.codeSubmits = @ + 1]
            /\ IF outcome = "ok"
               THEN pc' = "h_after" /\ UNCHANGED err
               ELSE Throw("codeEntry")
       ELSE LET st == checkLoginStatus(handleAnnouncements(page).page) IN
            /\ page' = st.page
            /\ UNCHANGED hist
            /\ CASE st.ret = "true"  -> pc' = "l_final" /\ UNCHANGED err
                 [] st.ret = "false" -> Throw("CodeInputNotFound")
                 [] OTHER            -> Throw("LoginErrorBanner")
    /\ UNCHANGED <<envTxt, savedDoc, applied, ctx, run, browserSt, loc, mn>>
    /\ UNCHANGED restVars

\* the 2FA indicators looked at before the login status
AfterSubmit_2FAFirst(p) ==
    LET a  == handleAnnouncements(p).page
        st == checkLoginStatus(a)
    IN  IF check2FA_noAuthFirst(a).ret = "true"
        THEN [kind |-> "rejected", page |-> a]
        ELSE [kind |-> IF st.ret = "throw" THEN "throw" ELSE "return",
              page |-> st.page]

\* handle2FA 383-397: announcements are dismissed, then the login check
\* runs (true: return), and only then check2FA (false: return)
AfterSubmit(p) ==
    LET a  == handleAnnouncements(p).page
        st == checkLoginStatus(a)
        c2 == check2FA(st.page)
    IN  CASE st.ret = "true"  -> [kind |-> "return", page |-> st.page]
          [] st.ret = "throw" -> [kind |-> "throw", page |-> st.page]
          [] OTHER -> [kind |-> IF c2.ret = "true" THEN "rejected"
                                ELSE "return",
                       page |-> c2.page]

H_afterSubmit ==
    /\ pc = "h_after"
    /\ LET r == AfterSubmit(page)
       IN  /\ page' = r.page
           /\ hist' = [hist EXCEPT !.noBox =
                          /\ r.kind = "return"
                          /\ checkLoginStatus(r.page).ret # "true"]
           /\ CASE r.kind = "return"   -> pc' = "l_final" /\ UNCHANGED err
                [] r.kind = "rejected" -> pc' = "h_reject" /\ UNCHANGED err
                [] OTHER               -> Throw("LoginErrorBanner")
    /\ UNCHANGED <<envTxt, savedDoc, applied, ctx, run, browserSt, loc, mn>>
    /\ UNCHANGED restVars

\* handle2FA 399-406: the rejection is reported to the responder
H_sendRejection ==
    /\ pc = "h_reject"
    /\ \E sendOk \in BOOLEAN :
        IF sendOk
        THEN /\ hist' = [hist EXCEPT !.reject = @ + 1]
             /\ pc' = "h_loop"
             /\ UNCHANGED err
        ELSE /\ Throw("sendFailed")
             /\ UNCHANGED hist
    /\ UNCHANGED <<page, envTxt, savedDoc, applied, ctx, run, browserSt, loc,
                   mn>>
    /\ UNCHANGED restVars

\* the result of handle2FA taken as the verdict
LoginVerified_trusting2FA(status) == TRUE

\* part_003 144: if (!(await checkLoginStatus(page))) throw
LoginVerified(status) == status = "true"

\* part_003 142-147
Login_finalCheck ==
    /\ pc = "l_final"
    /\ LET st == checkLoginStatus(handleAnnouncements(page).page) IN
        /\ page' = st.page
        /\ hist' = [hist EXCEPT !.authOk = (st.ret = "true")]
        /\ CASE st.ret = "throw"       -> Throw("LoginErrorBanner")
             [] st.ret # "throw" /\ LoginVerified(st.ret) ->
                                          pc' = "l_extract" /\ UNCHANGED err
             [] OTHER                  -> Throw("LoginVerifyFailed")
    /\ UNCHANGED <<envTxt, savedDoc, applied, ctx, run, browserSt, loc, mn>>
    /\ UNCHANGED restVars

\* part_003 153-166
Login_extractState ==
    /\ pc = "l_extract"
    /\ \E ok \in BOOLEAN :
        IF ok
        THEN /\ mn' = [mn EXCEPT !.loginResult = "success"]
             /\ pc' = "m_afterLogin"
             /\ UNCHANGED err
        ELSE /\ Throw("storageState")
             /\ UNCHANGED mn
    /\ UNCHANGED <<page, envTxt, savedDoc, applied, ctx, run, browserSt, loc,
                   hist>>
    /\ UNCHANGED restVars

\* part_003 168-177: with a page, the screenshot and the error notice (text,
\* then photo) come first and each may throw out of login(); after them the
\* browser is closed when login's browser variable is set
Login_catch ==
    /\ pc = "l_catch"
    /\ \E shotOk \in BOOLEAN, textOk \in BOOLEAN, photoOk \in BOOLEAN :
        LET shots  == IF loc.page /\ shotOk THEN 1 ELSE 0
            notice == IF loc.page /\ shotOk /\ textOk THEN 1 ELSE 0
            passed == ~loc.page \/ (shotOk /\ textOk /\ photoOk)
            closes == IF passed /\ loc.browser THEN 1 ELSE 0
        IN  /\ hist' = [hist EXCEPT !.shots = @ + shots,
                                    !.notice = @ + notice,
                                    !.closes = @ + closes,
                                    !.noticeFail =
                                        loc.page /\ shotOk /\ ~textOk]
            /\ browserSt' = IF closes = 1 THEN "closed" ELSE browserSt
            /\ mn' = [mn EXCEPT !.loginResult =
                                   IF passed THEN "failure" ELSE "rejected"]
            /\ pc' = IF passed THEN "m_afterLogin" ELSE "m_catch"
    /\ UNCHANGED <<page, envTxt, savedDoc, applied, ctx, run, loc, err>>
    /\ UNCHANGED restVars

\* main.js 67-72
Main_afterLogin ==
    /\ pc = "m_afterLogin"
    /\ IF LoginSucceeded(mn.loginResult)
       THEN /\ mn' = [mn EXCEPT !.browser = TRUE]
            /\ pc' = "m_report"
       ELSE /\ pc' = "m_catch"
            /\ UNCHANGED mn
    /\ UNCHANGED <<page, envTxt, savedDoc, applied, ctx, run, browserSt, loc,
                   err, hist>>
    /\ UNCHANGED restVars

\* main.js 74-80: scraping never throws, the success report may
Main_scrapeAndReport ==
    /\ pc = "m_report"
    /\ \E sendOk \in BOOLEAN, p \in SitePages :
        /\ page' = p
        /\ IF sendOk
           THEN /\ hist' = [hist EXCEPT !.report = @ + 1]
                /\ pc' = "m_save"
           ELSE /\ pc' = "m_catch"
                /\ UNCHANGED hist
    /\ UNCHANGED <<envTxt, savedDoc, applied, ctx, run, browserSt, loc, mn, err>>
    /\ UNCHANGED restVars

\* what context.storageState() returns after a login
Snapshots == { [cookies |-> 1, small |-> 1, large |-> 0],
               [cookies |-> 1, small |-> 1, large |-> 1] }

\* sessionStr.length > 60000: the payload is over the store's ceiling
\* (here: it holds a value above the per-item ceiling)
Oversized(snap) == snap.large > 0

\* main.js 91-103: sessionStr = JSON.stringify(storageState) is handed to
\* updateSessionSecret as it is; the branch for an oversized payload only
\* logs a warning
SessionToSave(snap) == snap

\* main.js 82-118: with the repository configured the session is written
\* to the MT_SESSION secret; a failure is reported as a warning, and a
\* failing warning throws into the outer catch
Main_saveState ==
    /\ pc = "m_save"
    /\ \E configured \in BOOLEAN, saveOk \in BOOLEAN, warnOk \in BOOLEAN,
          snap \in Snapshots :
        CASE ~configured ->
                /\ pc' = "m_finally"
                /\ UNCHANGED <<envTxt, hist>>
          [] configured /\ saveOk ->
                /\ envTxt' = ValidText
                /\ hist' = [hist EXCEPT !.persist = @ + 1,
                                        !.snap = snap,
                                        !.saved = SessionToSave(snap)]
                /\ pc' = "m_finally"
          [] configured /\ ~saveOk /\ warnOk ->
                /\ hist' = [hist EXCEPT !.warn = @ + 1, !.persistFail = TRUE]
                /\ pc' = "m_finally"
                /\ UNCHANGED envTxt
          [] OTHER ->
                /\ hist' = [hist EXCEPT !.persistFail = TRUE]
                /\ pc' = "m_catch"
                /\ UNCHANGED envTxt
    /\ UNCHANGED <<page, savedDoc, applied, ctx, run, browserSt, loc, mn, err>>
    /\ UNCHANGED restVars

\* main.js 125-136
Main_catch ==
    /\ pc = "m_catch"
    /\ \E noticeOk \in BOOLEAN :
        hist' = IF noticeOk THEN [hist EXCEPT !.notice = @ + 1]
                ELSE [hist EXCEPT !.noticeFail = TRUE]
    /\ mn' = [mn EXCEPT !.exitCode = 1]
    /\ pc' = "m_finally"
    /\ UNCHANGED <<page, envTxt, savedDoc, applied, ctx, run, browserSt, loc,
                   err>>
    /\ UNCHANGED restVars

\* a finally block that closes without looking at its variable
ClosesBrowser_always(browser) == TRUE

\* main.js 140 and closeBrowser 668: if (browser)
ClosesBrowser(browser) == browser

\* main.js 138-143 with closeBrowser 667-672 (close itself succeeds)
Main_finally ==
    /\ pc = "m_finally"
    /\ IF ClosesBrowser(mn.browser)
       THEN /\ browserSt' = "closed"
            /\ hist' = [hist EXCEPT !.closes = @ + 1]
       ELSE UNCHANGED <<browserSt, hist>>
    /\ pc' = "done"
    /\ UNCHANGED <<page, envTxt, savedDoc, applied, ctx, run, loc, mn, err>>
    /\ UNCHANGED restVars

\* the next scheduled run: a new process with the stored session as the
\* last run left it
NextRun ==
    /\ pc = "done"
    /\ run < MaxRuns
    /\ run' = run + 1
    /\ pc' = "m_start"
    /\ page' = NoPage
    /\ savedDoc' = NoDoc
    /\ applied' = FALSE
    /\ ctx' = "none"
    /\ browserSt' = "none"
    /\ loc' = NoLocals
    /\ mn' = NoMain
    /\ err' = "none"
    /\ hist' = [NoHist EXCEPT !.prevRestoredOk =
                   hist.restoredOk /\ mn.loginResult = "success"]
    /\ UNCHANGED envTxt
    /\ UNCHANGED restVars

NextLogin ==
    \/ Main_start
    \/ Login_initUpdates
    \/ Login_getSessionState
    \/ Login_createBrowser
    \/ Login_newPage
    \/ Login_validate
    \/ Login_gotoLogin
    \/ Login_performLogin
    \/ Login_checkDeviceApproval
    \/ Login_handleDeviceApproval
    \/ Login_check2FA
    \/ H_loopHead
    \/ H_waitForCode
    \/ H_findCodeInput
    \/ H_afterSubmit
    \/ H_sendRejection
    \/ Login_finalCheck
    \/ Login_extractState
    \/ Login_catch
    \/ Main_afterLogin
    \/ Main_scrapeAndReport
    \/ Main_saveState
    \/ Main_catch
    \/ Main_finally
    \/ NextRun

SpecLogin == InitLogin /\ [][NextLogin]_vars

\* every awaited step of the flow completes: the browser's operations have
\* their default timeouts, the waits are timers, and the event loop runs
\* the continuation of each
SpecLoginFair == SpecLogin /\ WF_vars(NextLogin)

(***************************************************************************)
(* Claims on the login flow.                                               *)
(***************************************************************************)
\* C3: one run of handle2FA never sends more than MAX_ATTEMPTS prompts, and
\* when it ends with the attempts-exhausted error it has sent exactly
\* MAX_ATTEMPTS prompts, each answered by a rejected code.
C3_PromptsBounded ==
    /\ hist.prompt <= MAX_ATTEMPTS
    /\ err = "AttemptsExhausted" =>
          /\ hist.prompt = MAX_ATTEMPTS
          /\ hist.reject = MAX_ATTEMPTS
          /\ hist.codeSubmits = MAX_ATTEMPTS

C3_Witness ==
    /\ err = "AttemptsExhausted"
    /\ hist.prompt = MAX_ATTEMPTS
    /\ pc = "done"

\* C7: no run ends with a browser that was launched and never closed.
C7_BrowserClosedAtEnd ==
    pc = "done" => browserSt # "open"

\* C9: with malformed content in the session cache login() does not fail
\* because of it: the browser context never rejects the cached state.
CacheMalformed ==
    \/ fileExists /\ fileTxt # ValidText
    \/ envTxt \notin {<<>>, ValidText}

C9_MalformedCacheNeverFatal ==
    (CacheMalformed /\ mn.loginResult \in {"failure", "rejected"}) =>
        (ctx # "throw" /\ err # "newContext")

\* C10: when the restored session validated as authenticated, the run makes
\* no credential submission and enters neither device approval nor 2FA.
C10_ValidRestoreSkipsLogin ==
    hist.restoredOk =>
        /\ hist.credSubmits = 0
        /\ ~hist.enteredDA
        /\ ~hist.entered2FA
        /\ hist.prompt = 0

C10_Witness ==
    /\ run = 2
    /\ hist.prevRestoredOk
    /\ hist.restoredOk
    /\ savedDoc.src = "file" /\ fileTxt = ValidText
    /\ mn.loginResult = "success"
    /\ hist.credSubmits = 0
    /\ pc = "done"

\* C11: when the cached snapshot validates, the acquisition succeeds with
\* zero interactions with the messaging transport during login(): no
\* getUpdates request, no device notice, no prompt, no rejection message.
C11_ValidCacheNoTransport ==
    (hist.restoredOk /\ mn.loginResult = "success") =>
        /\ hist.polls = 0
        /\ hist.devNotice = 0
        /\ hist.prompt = 0
        /\ hist.reject = 0

\* C12: once waitForVerificationCode has returned no code, handle2FA has
\* failed with the code-timeout error, and from then on the run sends no
\* further prompt and submits no code.
InHandle2FA == pc \in {"h_loop", "h_wait", "h_find", "h_after", "h_reject"}

C12_TimeoutIsImmediateFailure ==
    /\ [](hist.timedOut => (err = "CodeTimedOut" /\ ~InHandle2FA))
    /\ [][ (hist.timedOut /\ hist'.timedOut) =>
              /\ hist'.prompt = hist.prompt
              /\ hist'.codeSubmits = hist.codeSubmits ]_vars

C12_Witness ==
    /\ hist.timedOut
    /\ err = "CodeTimedOut"
    /\ hist.prompt = 2
    /\ loc.attempt = 2
    /\ pc = "done"

\* C13: in handle2FA each rejected code uses exactly one attempt and is
\* answered by exactly one rejection message before the next prompt: when
\* a prompt is about to be sent, the prompts sent, the rejection messages
\* sent and the attempts used before this one are the same number.
C13_OneAttemptOneRejection ==
    /\ hist.reject <= hist.prompt
    /\ pc = "h_wait" => /\ hist.reject = hist.prompt
                        /\ hist.codeSubmits = hist.prompt
                        /\ loc.attempt = hist.prompt + 1
    /\ pc = "h_loop" => /\ hist.reject = hist.prompt
                        /\ loc.attempt = hist.prompt

C13_Witness ==
    /\ hist.prompt = 2
    /\ hist.reject = 1
    /\ hist.codeSubmits = 2
    /\ mn.loginResult = "success"
    /\ pc = "done"

\* C14: after a code submission the announcement is dismissed and the
\* authenticated check decides first: a submission that led to an
\* authenticated page leaves handle2FA without a rejection, and a
\* rejection is reported only from a page that is not authenticated and
\* on which check2FA still asks for a code.
AuthenticatedAfterDismiss(p) ==
    checkLoginStatus(handleAnnouncements(p).page).ret = "true"

C14_AuthenticatedCheckFirst ==
    /\ [](pc = "h_reject" => ~AuthenticatedAfterDismiss(page))
    /\ [][ pc = "h_after" =>
              /\ AuthenticatedAfterDismiss(page) =>
                    (pc' = "l_final" /\ hist'.reject = hist.reject
                        /\ ~page'.dialog)
              /\ pc' = "h_reject" =>
                    check2FA(handleAnnouncements(page).page).ret = "true"
          ]_vars

C14_Witness ==
    /\ pc = "l_final"
    /\ hist.codeSubmits = 2
    /\ hist.reject = 1
    /\ HasUserIndicator(page) /\ ~page.urlLogin
    /\ page.tfaText /\ page.anyInput /\ ~page.recruit /\ ~page.dialog

\* C15: device approval is tried once per login (one notice, one wait and
\* reload), and a run whose page still asks for the approval after the
\* reload ends as a failure of the kind DeviceApprovalTimedOut, with an
\* error screenshot taken and the browser closed.
C15_DeviceApprovalSingleAttempt ==
    /\ hist.devNotice <= 1
    /\ (hist.stillDA /\ pc = "done") =>
          /\ mn.loginResult # "success"
          /\ err = "DeviceApprovalTimedOut"
          /\ hist.shots >= 1
          /\ browserSt = "closed"

LoginFailed == mn.loginResult \in {"failure", "rejected"}

\* C17: a run whose login failed, and in which no error notice failed to
\* be sent, has sent exactly one error notice (login() and main() together).
C17_OneFailureNotice ==
    (pc = "done" /\ LoginFailed /\ ~hist.noticeFail) => hist.notice = 1

\* C18: every login that ended in failure took an error screenshot before
\* the failure reached main().
C18_FailureHasScreenshot ==
    LoginFailed => hist.shots >= 1

\* C19: a run in which writing the session failed after a successful login
\* still ends as a successful run: exit code not 1 and no failure notice.
C19_PersistFailureNotFatal ==
    (hist.persistFail /\ pc = "done") =>
        /\ mn.exitCode = 0
        /\ hist.notice = 0

\* C20: the session is written only in a run whose login has confirmed the
\* authenticated state and returned success, after that confirmation, and
\* what is written is the snapshot taken then.
C20_PersistOnlyAfterConfirmedLogin ==
    /\ [](hist.persist > 0 => (mn.loginResult = "success" /\ hist.authOk))
    /\ [][ hist'.persist > hist.persist =>
              /\ mn.loginResult = "success"
              /\ hist.authOk
              /\ hist.report = 1
              /\ envTxt' = ValidText ]_vars

C20_Witness ==
    /\ hist.persist = 1
    /\ hist.credSubmits = 1
    /\ hist.authOk
    /\ mn.loginResult = "success"
    /\ envTxt = ValidText
    /\ fileTxt = <<>>
    /\ run = 1
    /\ pc = "done"

\* C25: when the captured snapshot is oversized, what is written has been
\* trimmed: no storage value above the per-item ceiling is left in it,
\* every value at or below the ceiling and every cookie is still there.
C25_OversizedIsTrimmed ==
    (hist.persist > 0 /\ Oversized(hist.snap)) =>
        /\ hist.saved.large = 0
        /\ hist.saved.small = hist.snap.small
        /\ hist.saved.cookies = hist.snap.cookies

\* C26: when performLogin finds no way to submit the form, the login ends
\* as a failure with the no-submit-path error and no credential
\* submission; and the flow never goes on past performLogin without a
\* submission.
PastPerformLogin ==
    pc \in {"l_checkDevice", "l_handleDevice", "l_check2FA", "h_loop",
            "h_wait", "h_find", "h_after", "h_reject", "l_final"}

C27_ErrorBannerLoops ==
    [][ (pc = "h_after" /\ page.errorElems
            /\ ~AuthenticatedAfterDismiss(page))
        => (pc' = "h_reject" /\ err' = "none") ]_vars

\* C28: the device-approval check, the first state-determining check after
\* the credentials were submitted, runs on a page whose announcement has
\* been dismissed.
C28_DismissBeforeCheck ==
    pc = "l_checkDevice" => ~page.dialog

\* C29: a restored session that fails validation (negative status, or an
\* error of the navigation or of the status check) never fails login():
\* the next step is the navigation to the login page.
C29_InvalidRestoreFallsThrough ==
    /\ [](err # "validate")
    /\ [][ (pc = "l_validate" /\ ~hist'.restoredOk)
            => (pc' = "l_gotoLogin" /\ err' = "none") ]_vars

C29_Witness ==
    /\ Truthy(savedDoc.val)
    /\ ~hist.restoredOk
    /\ hist.credSubmits = 1
    /\ mn.loginResult = "success"
    /\ pc = "done"

C33_MissingSettingFailsEarly ==
    (pc # "m_start" /\ mn.settings # Required) =>
        /\ pc \in {"m_catch", "m_finally", "done"}
        /\ browserSt = "none"
        /\ hist.polls = 0
        /\ hist.credSubmits = 0
        /\ ~loc.page
        /\ mn.loginResult = "none"
        /\ (pc \in {"m_finally", "done"} => mn.exitCode = 1)

\* a run without the bot token has ended
C33_Witness ==
    /\ pc = "done"
    /\ mn.settings = Required \ {"TG_BOT_TOKEN"}
    /\ mn.exitCode = 1

\* C34: login() returns success only when checkLoginStatus answered true in
\* this run on the page as the flow left it (no navigation or form
\* interaction after the check); handle2FA, however it returns, hands over
\* to the final check, and an exit through "no longer shows the
\* verification box" gives no success without that check answering true.
C34_SuccessOnlyAfterAuthenticatedCheck ==
    /\ []((pc = "m_afterLogin" /\ mn.loginResult = "success") =>
            (hist.authOk /\ checkLoginStatus(page).ret = "true"))
    /\ []((hist.noBox /\ mn.loginResult = "success") => hist.authOk)
    /\ [][(InHandle2FA /\ ~InHandle2FA') => pc' \in {"l_final", "l_catch"}]_vars

\* login() has returned success after a code was submitted in handle2FA
C34_Witness ==
    /\ pc = "m_afterLogin"
    /\ mn.loginResult = "success"
    /\ hist.codeSubmits >= 1
    /\ hist.authOk

\* C35: login() never rejects: whatever is raised inside the flow, the
\* catch block is left by the return of the failure result, also when the
\* screenshot or the error notice of the catch block fails.
C35_LoginNeverRejects ==
    [][pc = "l_catch" =>
          (pc' = "m_afterLogin" /\ mn'.loginResult = "failure")]_vars

\* C36: in a run where login() returned success the browser stays open
\* through scraping, reporting and persisting, whether or not one of them
\* throws, and main closes it exactly once at the end; in a run where
\* login() did not return success main closes nothing, so a browser that
\* login() closed is not closed again.
C36_BrowserClosedOnceByMain ==
    /\ []((mn.loginResult = "success" /\ pc # "done") =>
            (browserSt = "open" /\ hist.closes = 0))
    /\ []((mn.loginResult = "success" /\ pc = "done") =>
            (browserSt = "closed" /\ hist.closes = 1))
    /\ [](hist.closes <= 1)
    /\ [][(pc = "m_finally" /\ mn.loginResult # "success") =>
            hist'.closes = hist.closes]_vars

\* a run whose login succeeded and whose later step threw has ended with
\* the browser closed once
C36_Witness ==
    /\ pc = "done"
    /\ mn.loginResult = "success"
    /\ mn.exitCode = 1
    /\ hist.closes = 1
    /\ browserSt = "closed"

\* C37: when handle2FA holds a code and finds no code input, it submits
\* nothing and sends no further prompt; after the announcements are
\* dismissed it returns when the page is authenticated and otherwise fails
\* with the "code input not found" error.
C37_NoCodeInputReturnsOrFails ==
    [][(pc = "h_find" /\ ~findCodeInput(page)) =>
          /\ hist'.codeSubmits = hist.codeSubmits
          /\ hist'.prompt = hist.prompt
          /\ IF AuthenticatedAfterDismiss(page)
             THEN pc' = "l_final" /\ err' = "none"
             ELSE pc' = "l_catch" /\ err' = "CodeInputNotFound"]_vars

\* C38: performLogin submits the form only on a page where the password
\* could be filled: with no input matching the password selectors there is
\* no submission.
C38_SubmitOnlyAfterPasswordFilled ==
    [][(pc = "l_perform" /\ hist'.credSubmits > hist.credSubmits) =>
          page.pwdInput]_vars

====
